---- MODULE Spec2Model ----
(***************************************************************************)
(* Query-orchestration core of BiegeAI:                                    *)
(*   - the tool loop of MCPClient.run_with_context (backend/agent/mcp.py), *)
(*   - the ConversationManager store (backend/conversation_manager.py),    *)
(*   - the /ask handler that composes them (backend/main.py),              *)
(*   - the relevance filter of the retrieval path (backend/agent/rag.py).  *)
(* The completion service, the tool handlers and the clock are the         *)
(* environment: every value they can hand back is a nondeterministic       *)
(* choice from a small set.                                                *)
(***************************************************************************)
EXTENDS Integers, Sequences, FiniteSets, TLC

VARIABLES
    \* ---- MCPClient.run_with_context: locals of one run ----
    pc,               \* "AWAITING_MODEL" (top of the while loop), "SYNTHESIZING" (after the loop), "DONE"
    system_prompt,    \* the running system prompt, as the sequence of segments appended to it
    tool_calls_made,  \* executed-call counter
    all_tool_results, \* the ordered ToolCallRecords
    last_used_tool,   \* None or the tool executed last
    response,         \* the last in-loop completion
    final_response,   \* the synthesis completion
    result,           \* the value run_with_context returns
    generate_calls,   \* calls of gemini_client.generate made by this run
    execute_calls,    \* calls of execute_tool made by this run
    \* ---- ConversationManager ----
    cfg,              \* the constructor's parameters, as stored on self
    sessions,         \* self.sessions: insertion-ordered dict, as the sequence of its values
    now,              \* time.time(), in whole seconds
    last_call,        \* the store-level call that ran last, with its return value
    \* ---- filter_documents_by_similarity: one call ----
    docs_and_scores,  \* the candidates handed in: a list of (doc, score) pairs
    threshold,        \* the threshold argument, in tenths
    min_docs,         \* the min_docs argument
    filtered_docs,    \* None before the call, then the list it returned
    filtered_again,   \* None, then the list a second call with the same arguments returned
    \* ---- main.py: module state of the web application ----
    gemini_client,    \* the completion client built at startup, or None
    in_flight,        \* the locals of the /ask call that is inside get_rag_context / run_mcp, if any
    previous_run,     \* what the run_mcp call before this one left in its locals when it returned
    \* ---- MCPClient.execute_tool: one call on a registered tool ----
    tool_arguments,   \* the arguments mapping handed in
    handler_calls,    \* the calls of tool.handler made so far, each as its positional arguments
    handler_result    \* None before the call, then the string it returned

loopVars  == <<pc, system_prompt, tool_calls_made, all_tool_results, last_used_tool,
               response, final_response, result, generate_calls, execute_calls>>
storeVars == <<cfg, sessions, now, last_call>>
ragVars   == <<docs_and_scores, threshold, min_docs, filtered_docs, filtered_again>>
toolVars  == <<tool_arguments, handler_calls, handler_result>>
appVars   == <<gemini_client, in_flight, previous_run, tool_arguments, handler_calls,
               handler_result>>
vars      == <<pc, system_prompt, tool_calls_made, all_tool_results, last_used_tool,
               response, final_response, result, generate_calls, execute_calls,
               cfg, sessions, now, last_call,
               docs_and_scores, threshold, min_docs, filtered_docs, filtered_again,
               gemini_client, in_flight, previous_run, tool_arguments, handler_calls,
               handler_result>>

\* Python's None
None == "<None>"

\* str(v) as an f-string renders it
Str(v) == IF v = None THEN "None" ELSE v

-----------------------------------------------------------------------------
(***************************************************************************)
(* The tool loop                                                           *)
(***************************************************************************)

\* The loop's ceiling on executed tool calls.
max_tool_calls == 5

\* Completions the run asks for in the loop before the model stops following it.
MaxTurns == 7

\* Two of the eight registered tools.
RegisteredTools == {"calculator", "get_time"}

\* Tool names a completion can carry: registered, unregistered, JSON null.
RequestedTools == RegisteredTools \cup {"no_such_tool", None}

\* A completion, described by what the loop's parsing finds in it:
\*   open/close  - "{" / "}" occur in the text
\*   decodes     - json.loads accepts text[first "{" .. last "}"]
\*   has_tool / has_arguments - the decoded map has these keys
Completion(text, open, close, decodes, has_tool, has_arguments, tool) ==
    [text |-> text, open |-> open, close |-> close, decodes |-> decodes,
     has_tool |-> has_tool, has_arguments |-> has_arguments, tool |-> tool,
     arguments |-> IF has_arguments THEN "{...}" ELSE None]

ToolRequest(t) == Completion("call " \o Str(t), TRUE, TRUE, TRUE, TRUE, TRUE, t)

\* What generate returns when the model call fails (gemini_client.py:24-25).
GenerateFailed ==
    Completion("[Gemini API Error] quota", FALSE, FALSE, FALSE, FALSE, FALSE, None)

\* Braces nested deeper than the interpreter's recursion limit: json.loads
\* raises RecursionError, which is not the JSONDecodeError of line 233.
JsonTooDeep ==
    Completion("{\"a\": [[[[...]]]]}", TRUE, TRUE, FALSE, FALSE, FALSE, None)

PlainCompletions ==
    { Completion("plain answer",   FALSE, FALSE, FALSE, FALSE, FALSE, None),
      GenerateFailed,
      Completion("{ unbalanced",   TRUE,  FALSE, FALSE, FALSE, FALSE, None),
      Completion("{not json}",     TRUE,  TRUE,  FALSE, FALSE, FALSE, None),
      Completion("{\"a\": 1}",     TRUE,  TRUE,  TRUE,  FALSE, FALSE, None),
      Completion("{\"tool\": 1}",  TRUE,  TRUE,  TRUE,  TRUE,  FALSE, "calculator") }

Completions ==
    PlainCompletions \cup { ToolRequest(t) : t \in RequestedTools } \cup {JsonTooDeep}

\* What the synthesis call can return (generate turns its own failures into text).
SynthesisTexts == {"synthesized answer", "[Gemini API Error] quota"}

NoCompletion == Completion(None, FALSE, FALSE, FALSE, FALSE, FALSE, None)

\* Line 182: json.loads raises something the inner handler does not catch.
RaisesInParse(r) == r = JsonTooDeep

\* Lines 293-295: what run_with_context returns for an exception in its body.
McpError == "[MCP Error] " \o "maximum recursion depth exceeded"

\* Lines 176-184: the completion carries a well-formed tool request.
IsToolCall(r) == r.open /\ r.close /\ r.decodes /\ r.has_tool /\ r.has_arguments

\* MCPClient.execute_tool: the handler's string, the error-marked string when
\* the handler raises, the "not found" string when no tool has that name.
HandlerOutput(tool_name) == "result of " \o tool_name

execute_tool_Unmarked(tool_name, arguments, handler_raises) ==
    IF tool_name \in RegisteredTools
    THEN IF handler_raises
         THEN "handler failed"
         ELSE HandlerOutput(tool_name)
    ELSE "Tool '" \o Str(tool_name) \o "' not found"
execute_tool(tool_name, arguments, handler_raises) ==
    IF tool_name \in RegisteredTools
    THEN IF handler_raises
         THEN "Tool execution error: " \o "handler failed"
         ELSE HandlerOutput(tool_name)
    ELSE "Tool '" \o Str(tool_name) \o "' not found"

\* Keys a completion can put into the arguments of a tool request.
ArgumentKeys ==
    {"query", "question", "location", "expression", "url", "operation", "timezone",
     "filename", "content", "other"}

\* arguments.get(key)
DictGet(arguments, key) == IF key \in DOMAIN arguments THEN arguments[key] ELSE None

\* str(arguments): a text made from the mapping, not the mapping.
StrOf(arguments) == [str |-> arguments]

\* Lines 78-96: the positional arguments tool.handler is called with.
HandlerArguments_QuestionFirst(arguments) ==
    IF "question" \in DOMAIN arguments THEN <<arguments["question"]>>
    ELSE IF "query" \in DOMAIN arguments THEN <<arguments["query"]>>
    ELSE IF "location" \in DOMAIN arguments THEN <<arguments["location"]>>
    ELSE IF "expression" \in DOMAIN arguments THEN <<arguments["expression"]>>
    ELSE IF "url" \in DOMAIN arguments THEN <<arguments["url"]>>
    ELSE IF "operation" \in DOMAIN arguments
         THEN <<arguments["operation"], DictGet(arguments, "filename"),
                DictGet(arguments, "content")>>
    ELSE IF "timezone" \in DOMAIN arguments THEN <<arguments["timezone"]>>
    ELSE <<StrOf(arguments)>>
HandlerArguments(arguments) ==
    IF "query" \in DOMAIN arguments THEN <<arguments["query"]>>
    ELSE IF "question" \in DOMAIN arguments THEN <<arguments["question"]>>
    ELSE IF "location" \in DOMAIN arguments THEN <<arguments["location"]>>
    ELSE IF "expression" \in DOMAIN arguments THEN <<arguments["expression"]>>
    ELSE IF "url" \in DOMAIN arguments THEN <<arguments["url"]>>
    ELSE IF "operation" \in DOMAIN arguments
         THEN <<arguments["operation"], DictGet(arguments, "filename"),
                DictGet(arguments, "content")>>
    ELSE IF "timezone" \in DOMAIN arguments THEN <<arguments["timezone"]>>
    ELSE <<StrOf(arguments)>>

ToolCallRecord(tool_name, arguments, tool_result) ==
    [tool |-> tool_name, arguments |-> arguments, result |-> tool_result]

WarningSegment(tool_name) == [kind |-> "warning", tool |-> tool_name]
ResultSegment(tool_name)  == [kind |-> "tool_result", tool |-> tool_name]

\* Line 169: the while condition.
LoopContinues_OneMore(n) == n <= max_tool_calls
LoopContinues(n) == n < max_tool_calls

\* Line 192: the requested tool is the one executed last.
IsConsecutiveDuplicate_Never(tool_name, last) == FALSE
IsConsecutiveDuplicate(tool_name, last) == tool_name = last

LoopInit ==
    /\ pc = "AWAITING_MODEL"
    /\ system_prompt = << >>
    /\ tool_calls_made = 0
    /\ all_tool_results = << >>
    /\ last_used_tool = None
    /\ response = NoCompletion
    /\ final_response = None
    /\ result = None
    /\ generate_calls = 0
    /\ execute_calls = 0

\* The while condition holds and generate is called (lines 169-171).
Turn(r) ==
    /\ pc = "AWAITING_MODEL"
    /\ LoopContinues(tool_calls_made)
    /\ generate_calls < MaxTurns
    /\ r \in Completions
    /\ response' = r
    /\ generate_calls' = generate_calls + 1

\* Lines 192-196: the requested tool is the one used last.
DuplicateRejected_Counted(r) ==
    /\ Turn(r)
    /\ IsToolCall(r)
    /\ IsConsecutiveDuplicate(r.tool, last_used_tool)
    /\ system_prompt' = Append(system_prompt, WarningSegment(r.tool))
    /\ tool_calls_made' = tool_calls_made + 1
    /\ UNCHANGED <<pc, all_tool_results, last_used_tool,
                   final_response, result, execute_calls>>
    /\ UNCHANGED <<storeVars, ragVars, appVars>>
DuplicateRejected(r) ==
    /\ Turn(r)
    /\ IsToolCall(r)
    /\ IsConsecutiveDuplicate(r.tool, last_used_tool)
    /\ system_prompt' = Append(system_prompt, WarningSegment(r.tool))
    /\ UNCHANGED <<pc, tool_calls_made, all_tool_results, last_used_tool,
                   final_response, result, execute_calls>>
    /\ UNCHANGED <<storeVars, ragVars, appVars>>

\* Lines 198-220: execute, record, remember, count.
ExecuteTool_ForgetsUnknown(r, handler_raises) ==
    /\ Turn(r)
    /\ IsToolCall(r)
    /\ ~IsConsecutiveDuplicate(r.tool, last_used_tool)
    /\ LET tool_result == execute_tool(r.tool, r.arguments, handler_raises)
       IN  /\ all_tool_results' = Append(all_tool_results,
                                         ToolCallRecord(r.tool, r.arguments, tool_result))
           /\ system_prompt' = Append(system_prompt, ResultSegment(r.tool))
    /\ last_used_tool' = IF r.tool \in RegisteredTools THEN r.tool ELSE last_used_tool
    /\ execute_calls' = execute_calls + 1
    /\ tool_calls_made' = tool_calls_made + 1
    /\ UNCHANGED <<pc, final_response, result>>
    /\ UNCHANGED <<storeVars, ragVars, appVars>>
ExecuteTool(r, handler_raises) ==
    /\ Turn(r)
    /\ IsToolCall(r)
    /\ ~IsConsecutiveDuplicate(r.tool, last_used_tool)
    /\ LET tool_result == execute_tool(r.tool, r.arguments, handler_raises)
       IN  /\ all_tool_results' = Append(all_tool_results,
                                         ToolCallRecord(r.tool, r.arguments, tool_result))
           /\ system_prompt' = Append(system_prompt, ResultSegment(r.tool))
    /\ last_used_tool' = r.tool
    /\ execute_calls' = execute_calls + 1
    /\ tool_calls_made' = tool_calls_made + 1
    /\ UNCHANGED <<pc, final_response, result>>
    /\ UNCHANGED <<storeVars, ragVars, appVars>>

\* Lines 222-235: no tool request found, or the JSON does not decode: break.
ModelAnswers(r) ==
    /\ Turn(r)
    /\ ~IsToolCall(r)
    /\ ~RaisesInParse(r)
    /\ pc' = "SYNTHESIZING"
    /\ UNCHANGED <<system_prompt, tool_calls_made, all_tool_results, last_used_tool,
                   final_response, result, execute_calls>>
    /\ UNCHANGED <<storeVars, ragVars, appVars>>

\* Lines 182, 293-295: the parse raises past the inner handler; the run
\* returns the error text.
ParseRaises(r) ==
    /\ Turn(r)
    /\ RaisesInParse(r)
    /\ result' = McpError
    /\ pc' = "DONE"
    /\ UNCHANGED <<system_prompt, tool_calls_made, all_tool_results, last_used_tool,
                   final_response, execute_calls>>
    /\ UNCHANGED <<storeVars, ragVars, appVars>>

\* Line 169: the while condition fails.
CeilingReached ==
    /\ pc = "AWAITING_MODEL"
    /\ ~LoopContinues(tool_calls_made)
    /\ pc' = "SYNTHESIZING"
    /\ UNCHANGED <<system_prompt, tool_calls_made, all_tool_results, last_used_tool,
                   response, final_response, result, generate_calls, execute_calls>>
    /\ UNCHANGED <<storeVars, ragVars, appVars>>

\* Lines 238-285: one more completion over the tool results, returned.
Synthesize_ReturnsLoopResponse(text) ==
    /\ pc = "SYNTHESIZING"
    /\ all_tool_results # << >>
    /\ text \in SynthesisTexts
    /\ final_response' = text
    /\ generate_calls' = generate_calls + 1
    /\ result' = response.text
    /\ pc' = "DONE"
    /\ UNCHANGED <<system_prompt, tool_calls_made, all_tool_results, last_used_tool,
                   response, execute_calls>>
    /\ UNCHANGED <<storeVars, ragVars, appVars>>
Synthesize(text) ==
    /\ pc = "SYNTHESIZING"
    /\ all_tool_results # << >>
    /\ text \in SynthesisTexts
    /\ final_response' = text
    /\ generate_calls' = generate_calls + 1
    /\ result' = text
    /\ pc' = "DONE"
    /\ UNCHANGED <<system_prompt, tool_calls_made, all_tool_results, last_used_tool,
                   response, execute_calls>>
    /\ UNCHANGED <<storeVars, ragVars, appVars>>

\* Lines 286-291: no tool ran, the in-loop completion is the answer.
ReturnDirect_AsksAgain ==
    /\ pc = "SYNTHESIZING"
    /\ all_tool_results = << >>
    /\ generate_calls' = generate_calls + 1
    /\ result' = "synthesized answer"
    /\ pc' = "DONE"
    /\ UNCHANGED <<system_prompt, tool_calls_made, all_tool_results, last_used_tool,
                   response, final_response, execute_calls>>
    /\ UNCHANGED <<storeVars, ragVars, appVars>>
ReturnDirect ==
    /\ pc = "SYNTHESIZING"
    /\ all_tool_results = << >>
    /\ result' = response.text
    /\ pc' = "DONE"
    /\ UNCHANGED <<system_prompt, tool_calls_made, all_tool_results, last_used_tool,
                   response, final_response, generate_calls, execute_calls>>
    /\ UNCHANGED <<storeVars, ragVars, appVars>>

\* No run_mcp call has returned yet in this process.
NoRun == [last_used_tool |-> None, tool_calls_made |-> 0]

\* run_mcp is called for the next query (lines 297-309): a new MCPClient is
\* built and run_with_context starts with its locals set anew (lines 164-167).
NextQuery_KeepsLastTool ==
    /\ pc = "DONE"
    /\ previous_run' = [last_used_tool |-> last_used_tool,
                        tool_calls_made |-> tool_calls_made]
    /\ pc' = "AWAITING_MODEL"
    /\ system_prompt' = << >>
    /\ tool_calls_made' = 0
    /\ all_tool_results' = << >>
    /\ last_used_tool' = last_used_tool
    /\ response' = NoCompletion
    /\ final_response' = None
    /\ result' = None
    /\ generate_calls' = 0
    /\ execute_calls' = 0
    /\ UNCHANGED <<gemini_client, in_flight, toolVars>>
    /\ UNCHANGED <<storeVars, ragVars>>
NextQuery ==
    /\ pc = "DONE"
    /\ previous_run' = [last_used_tool |-> last_used_tool,
                        tool_calls_made |-> tool_calls_made]
    /\ pc' = "AWAITING_MODEL"
    /\ system_prompt' = << >>
    /\ tool_calls_made' = 0
    /\ all_tool_results' = << >>
    /\ last_used_tool' = None
    /\ response' = NoCompletion
    /\ final_response' = None
    /\ result' = None
    /\ generate_calls' = 0
    /\ execute_calls' = 0
    /\ UNCHANGED <<gemini_client, in_flight, toolVars>>
    /\ UNCHANGED <<storeVars, ragVars>>

\* The completions of a model that asks for registered tools or answers.
RunCompletions ==
    { ToolRequest(t) : t \in RegisteredTools }
        \cup { Completion("plain answer", FALSE, FALSE, FALSE, FALSE, FALSE, None) }

\* Query after query through run_mcp.
RunsNext ==
    \/ \E r \in RunCompletions : DuplicateRejected(r)
    \/ \E r \in RunCompletions : ExecuteTool(r, FALSE)
    \/ \E r \in RunCompletions : ModelAnswers(r)
    \/ CeilingReached
    \/ Synthesize("synthesized answer")
    \/ ReturnDirect
    \/ NextQuery

LoopNext ==
    \/ \E r \in Completions : DuplicateRejected(r)
    \/ \E r \in Completions, h \in BOOLEAN : ExecuteTool(r, h)
    \/ \E r \in Completions : ModelAnswers(r)
    \/ \E r \in Completions : ParseRaises(r)
    \/ CeilingReached
    \/ \E text \in SynthesisTexts : Synthesize(text)
    \/ ReturnDirect

-----------------------------------------------------------------------------
(***************************************************************************)
(* The conversation store                                                  *)
(***************************************************************************)

\* A minute of time.time(), in seconds.
SecondsPerMinute == 60

\* Constructor parameters the store is built with when sessions are exercised.
MaxSessions == 1
SessionTimeoutMinutes == 2
MaxMessagesPerSession == 2
MaxContextLength == 20
ConsecutiveTimeoutMinutes == 1

\* Constructor parameters the store is built with when the context window is exercised.
CtxMaxMessagesPerSession == 9
CtxMaxContextLength == 63

\* The clock stops here.
MaxTime == 122

\* How far the clock moves between two calls.
ClockSteps == {61}

\* Session ids a client sends, message texts, questions and answers.
ClientIds == {"s1"}
Senders   == {"user", "agent"}
Texts     == {"q"}
Questions == {"q"}
Answers   == {"ans"}

StoreConfig ==
    [max_sessions |-> MaxSessions,
     session_timeout_minutes |-> SessionTimeoutMinutes,
     max_messages_per_session |-> MaxMessagesPerSession,
     max_context_length |-> MaxContextLength,
     consecutive_timeout_minutes |-> ConsecutiveTimeoutMinutes]

CtxConfig ==
    [max_sessions |-> MaxSessions,
     session_timeout_minutes |-> SessionTimeoutMinutes,
     max_messages_per_session |-> CtxMaxMessagesPerSession,
     max_context_length |-> CtxMaxContextLength,
     consecutive_timeout_minutes |-> ConsecutiveTimeoutMinutes]

Message(sender, text, timestamp, session_id) ==
    [sender |-> sender, text |-> text, timestamp |-> timestamp, session_id |-> session_id]

ConversationSession(session_id, messages, last_activity, created_at) ==
    [session_id |-> session_id, messages |-> messages,
     last_activity |-> last_activity, created_at |-> created_at]

\* dict operations on the insertion-ordered self.sessions
Keys(S) == { S[i].session_id : i \in DOMAIN S }
Has(S, k) == k \in Keys(S)
IndexOf(S, k) == CHOOSE i \in DOMAIN S : S[i].session_id = k
Get(S, k) == S[IndexOf(S, k)]
Put(S, k, v) == IF Has(S, k) THEN [S EXCEPT ![IndexOf(S, k)] = v] ELSE Append(S, v)

\* f"{user_identifier}_{int(time.time())}" with the default identifier
generate_session_id(t) == "default_" \o ToString(t)

\* A session is expired at time t.
Expired_Never(s, c, t) == FALSE
Expired(s, c, t) == t - s.last_activity > c.session_timeout_minutes * SecondsPerMinute

\* _cleanup_expired_sessions: drop the expired sessions, then, if more than
\* max_sessions are left, the first len - max_sessions of them in the order of
\* sorted(key=last_activity), which is stable on the dict's insertion order.
cleanup_expired_sessions_ExpiryOnly(S, c, t) ==
    LET Live(s) == ~Expired(s, c, t)
    IN  SelectSeq(S, Live)
cleanup_expired_sessions_NewestFirst(S, c, t) ==
    LET Live(s) == ~Expired(s, c, t)
        S1 == SelectSeq(S, Live)
        sessions_to_remove == Len(S1) - c.max_sessions
        SortsBefore(i, j) ==
            \/ S1[i].last_activity > S1[j].last_activity
            \/ S1[i].last_activity = S1[j].last_activity /\ i < j
        Rank(i) == Cardinality({ j \in DOMAIN S1 : SortsBefore(j, i) })
        Kept(s) == Rank(IndexOf(S1, s.session_id)) >= sessions_to_remove
    IN  IF Len(S1) > c.max_sessions THEN SelectSeq(S1, Kept) ELSE S1
cleanup_expired_sessions(S, c, t) ==
    LET Live(s) == ~Expired(s, c, t)
        S1 == SelectSeq(S, Live)
        sessions_to_remove == Len(S1) - c.max_sessions
        SortsBefore(i, j) ==
            \/ S1[i].last_activity < S1[j].last_activity
            \/ S1[i].last_activity = S1[j].last_activity /\ i < j
        Rank(i) == Cardinality({ j \in DOMAIN S1 : SortsBefore(j, i) })
        Kept(s) == Rank(IndexOf(S1, s.session_id)) >= sessions_to_remove
    IN  IF Len(S1) > c.max_sessions THEN SelectSeq(S1, Kept) ELSE S1

\* get_or_create_session with the clock read at t by every statement up to
\* `last_activity=time.time()` (line 102) and at t_created_at by
\* `created_at=time.time()` (line 103), the argument evaluated after it.
get_or_create_session_reads(S, c, session_id, t, t_created_at) ==
    LET S1 == cleanup_expired_sessions(S, c, t)
    IN  IF session_id # None /\ Has(S1, session_id)
        THEN [sessions |-> Put(S1, session_id,
                               [Get(S1, session_id) EXCEPT !.last_activity = t]),
              session_id |-> session_id]
        ELSE LET new_session_id ==
                     IF session_id # None THEN session_id ELSE generate_session_id(t)
             IN  [sessions |-> Put(S1, new_session_id,
                                   ConversationSession(new_session_id, << >>, t,
                                                       t_created_at)),
                  session_id |-> new_session_id]

\* get_or_create_session: the store after the call and the id returned, when
\* the clock does not move during the call.
get_or_create_session_Revives(S, c, session_id, t) ==
    LET S1 == S
    IN  IF session_id # None /\ Has(S1, session_id)
        THEN [sessions |-> Put(S1, session_id,
                               [Get(S1, session_id) EXCEPT !.last_activity = t]),
              session_id |-> session_id]
        ELSE LET new_session_id ==
                     IF session_id # None THEN session_id ELSE generate_session_id(t)
             IN  [sessions |-> Put(S1, new_session_id,
                                   ConversationSession(new_session_id, << >>, t, t)),
                  session_id |-> new_session_id]
get_or_create_session(S, c, session_id, t) ==
    LET S1 == cleanup_expired_sessions(S, c, t)
    IN  IF session_id # None /\ Has(S1, session_id)
        THEN [sessions |-> Put(S1, session_id,
                               [Get(S1, session_id) EXCEPT !.last_activity = t]),
              session_id |-> session_id]
        ELSE LET new_session_id ==
                     IF session_id # None THEN session_id ELSE generate_session_id(t)
             IN  [sessions |-> Put(S1, new_session_id,
                                   ConversationSession(new_session_id, << >>, t, t)),
                  session_id |-> new_session_id]

\* Line 122: the gap since the session's last message exceeds the consecutive timeout.
TimeGap(s, c, t) ==
    /\ s.messages # << >>
    /\ t - s.messages[Len(s.messages)].timestamp
           > c.consecutive_timeout_minutes * SecondsPerMinute

\* Lines 139-141: messages[removed_count:]
TrimMessages_OneTooMany(messages, c) ==
    IF Len(messages) > c.max_messages_per_session + 1
    THEN LET removed_count == Len(messages) - c.max_messages_per_session - 1
         IN  SubSeq(messages, removed_count + 1, Len(messages))
    ELSE messages
TrimMessages_KeepOldest(messages, c) ==
    IF Len(messages) > c.max_messages_per_session
    THEN SubSeq(messages, 1, c.max_messages_per_session)
    ELSE messages
TrimMessages(messages, c) ==
    IF Len(messages) > c.max_messages_per_session
    THEN LET removed_count == Len(messages) - c.max_messages_per_session
         IN  SubSeq(messages, removed_count + 1, Len(messages))
    ELSE messages

\* add_message: the store after the call, the id of the session the message
\* went to, and the value returned.
add_message_UnderNewId(S, c, session_id, sender, text, t) ==
    LET r1 == IF ~Has(S, session_id)
              THEN get_or_create_session(S, c, None, t)
              ELSE [sessions |-> S, session_id |-> session_id]
        r2 == IF TimeGap(Get(r1.sessions, r1.session_id), c, t)
              THEN get_or_create_session(r1.sessions, c, None, t)
              ELSE r1
        session == Get(r2.sessions, r2.session_id)
        message == Message(sender, text, t, r2.session_id)
        appended == Append(session.messages, message)
    IN  [sessions |-> Put(r2.sessions, r2.session_id,
                          [session EXCEPT !.messages = TrimMessages(appended, c),
                                          !.last_activity = t]),
         session_id |-> r2.session_id,
         ret |-> TRUE]
add_message_StampsRequestedId(S, c, session_id, sender, text, t) ==
    LET r1 == IF ~Has(S, session_id)
              THEN get_or_create_session(S, c, session_id, t)
              ELSE [sessions |-> S, session_id |-> session_id]
        r2 == IF TimeGap(Get(r1.sessions, r1.session_id), c, t)
              THEN get_or_create_session(r1.sessions, c, None, t)
              ELSE r1
        session == Get(r2.sessions, r2.session_id)
        message == Message(sender, text, t, session_id)
        appended == Append(session.messages, message)
    IN  [sessions |-> Put(r2.sessions, r2.session_id,
                          [session EXCEPT !.messages = TrimMessages(appended, c),
                                          !.last_activity = t]),
         session_id |-> r2.session_id,
         ret |-> TRUE]
add_message(S, c, session_id, sender, text, t) ==
    LET r1 == IF ~Has(S, session_id)
              THEN get_or_create_session(S, c, session_id, t)
              ELSE [sessions |-> S, session_id |-> session_id]
        r2 == IF TimeGap(Get(r1.sessions, r1.session_id), c, t)
              THEN get_or_create_session(r1.sessions, c, None, t)
              ELSE r1
        session == Get(r2.sessions, r2.session_id)
        message == Message(sender, text, t, r2.session_id)
        appended == Append(session.messages, message)
    IN  [sessions |-> Put(r2.sessions, r2.session_id,
                          [session EXCEPT !.messages = TrimMessages(appended, c),
                                          !.last_activity = t]),
         session_id |-> r2.session_id,
         ret |-> TRUE]

\* f"{message.sender}: {message.text}"
MessageText(m) == m.sender \o ": " \o m.text

\* "\n".join(parts)
RECURSIVE JoinLines(_)
JoinLines(parts) ==
    IF parts = << >> THEN ""
    ELSE IF Len(parts) = 1 THEN parts[1]
    ELSE parts[1] \o "\n" \o JoinLines(Tail(parts))

\* conversation_parts.insert(0, message_text): the older line goes in front.
InsertAtFront_AtEnd(parts, message_text) == Append(parts, message_text)
InsertAtFront(parts, message_text) == <<message_text>> \o parts

\* Lines 163-172: walk the messages from the newest backwards, stop at the
\* first one that does not fit; i is the index of the message looked at.
RECURSIVE CollectParts(_, _, _, _, _)
CollectParts(messages, i, parts, total_length, c) ==
    IF i = 0 THEN [parts |-> parts, total_length |-> total_length]
    ELSE LET message_text == MessageText(messages[i])
             message_length == Len(message_text)
         IN  IF total_length + message_length > c.max_context_length
             THEN [parts |-> parts, total_length |-> total_length]
             ELSE CollectParts(messages, i - 1, InsertAtFront(parts, message_text),
                               total_length + message_length, c)

\* get_conversation_context: the text and the stats record.
get_conversation_context(S, c, session_id, current_question) ==
    IF ~Has(S, session_id) \/ Get(S, session_id).messages = << >>
    THEN [context |-> "",
          debug_info |-> [session_id |-> session_id, context_length |-> 0,
                          message_count |-> 0]]
    ELSE LET messages == Get(S, session_id).messages
             history == CollectParts(messages, Len(messages), << >>, 0, c)
             current_question_text == "user: " \o current_question
             fits == history.total_length + Len(current_question_text)
                         <= c.max_context_length
             conversation_parts ==
                 IF fits THEN Append(history.parts, current_question_text)
                 ELSE history.parts
             total_length ==
                 IF fits THEN history.total_length + Len(current_question_text)
                 ELSE history.total_length
         IN  [context |-> JoinLines(conversation_parts),
              debug_info |-> [session_id |-> session_id,
                              context_length |-> total_length,
                              message_count |-> Len(conversation_parts),
                              total_session_messages |-> Len(messages),
                              context_truncated |->
                                  Len(conversation_parts) < Len(messages)]]

NoCall == [op |-> "none"]

\* main.py:66-72: the completion client, None when its construction raised.
GeminiClient == "GeminiClient"
ClientReady == gemini_client = GeminiClient
ClientFailed == gemini_client = None

\* The event loop is running no /ask call.
NoRequest == [at |-> "idle"]
NoQuery == in_flight = NoRequest /\ previous_run = NoRun

StoreInit(c) ==
    /\ cfg = c
    /\ sessions = << >>
    /\ now = 0
    /\ last_call = NoCall

\* Ids a caller can name: the ones clients make up and the ones handed out.
KnownIds == ClientIds \cup Keys(sessions)

\* time.time() moves on between two calls.
Tick(d) ==
    /\ d \in ClockSteps
    /\ now + d <= MaxTime
    /\ now' = now + d
    /\ UNCHANGED <<cfg, sessions, last_call>>
    /\ UNCHANGED <<loopVars, ragVars, appVars>>

\* The smallest step of the clock: two adjacent time.time() reads can differ
\* by it.
ClockTick == 1

\* How many calls between two steps of ClockSteps see the clock move.
MaxTicksInCalls == 1

\* A get_or_create_session call during which the clock moves on between the
\* two reads of lines 102 and 103.
GetOrCreateSessionAcrossTick(session_id) ==
    /\ session_id \in KnownIds \cup {None}
    /\ now + ClockTick <= MaxTime
    /\ \A d \in ClockSteps : now % d < MaxTicksInCalls * ClockTick
    /\ LET r == get_or_create_session_reads(sessions, cfg, session_id, now, now + ClockTick)
       IN  /\ sessions' = r.sessions
           /\ last_call' = [op |-> "get_or_create_session", session_id |-> session_id,
                            ret |-> r.session_id]
    /\ now' = now + ClockTick
    /\ UNCHANGED cfg
    /\ UNCHANGED <<loopVars, ragVars, appVars>>

GetOrCreateSession(session_id) ==
    /\ session_id \in KnownIds \cup {None}
    /\ LET r == get_or_create_session(sessions, cfg, session_id, now)
       IN  /\ sessions' = r.sessions
           /\ last_call' = [op |-> "get_or_create_session", session_id |-> session_id,
                            ret |-> r.session_id]
    /\ UNCHANGED <<cfg, now>>
    /\ UNCHANGED <<loopVars, ragVars, appVars>>

AddMessage(session_id, sender, text) ==
    /\ session_id \in ClientIds
    /\ sender \in Senders
    /\ text \in Texts
    /\ LET r == add_message(sessions, cfg, session_id, sender, text, now)
       IN  /\ sessions' = r.sessions
           /\ last_call' = [op |-> "add_message", session_id |-> session_id,
                            sender |-> sender, text |-> text,
                            stored_in |-> r.session_id, ret |-> r.ret]
    /\ UNCHANGED <<cfg, now>>
    /\ UNCHANGED <<loopVars, ragVars, appVars>>

GetConversationContext_Resolves(session_id, current_question) ==
    /\ session_id \in ClientIds
    /\ current_question \in Questions
    /\ LET r == get_conversation_context(sessions, cfg, session_id, current_question)
       IN  last_call' = [op |-> "get_conversation_context", session_id |-> session_id,
                         current_question |-> current_question,
                         context |-> r.context, debug_info |-> r.debug_info]
    /\ sessions' = get_or_create_session(sessions, cfg, session_id, now).sessions
    /\ UNCHANGED <<cfg, now>>
    /\ UNCHANGED <<loopVars, ragVars, appVars>>
GetConversationContext(session_id, current_question) ==
    /\ session_id \in ClientIds
    /\ current_question \in Questions
    /\ LET r == get_conversation_context(sessions, cfg, session_id, current_question)
       IN  last_call' = [op |-> "get_conversation_context", session_id |-> session_id,
                         current_question |-> current_question,
                         context |-> r.context, debug_info |-> r.debug_info]
    /\ UNCHANGED <<cfg, sessions, now>>
    /\ UNCHANGED <<loopVars, ragVars, appVars>>

\* The /ask handler for a request without a question (and without a session
\* id): it returns before it touches the store (lines 246-248).
AskWithoutQuestion ==
    /\ gemini_client # None
    /\ last_call' = [op |-> "ask", session_id |-> None, question |-> "",
                     ret |-> [answer |-> "Please provide a question.",
                              error |-> "no_question_provided"]]
    /\ UNCHANGED <<cfg, sessions, now>>
    /\ UNCHANGED <<loopVars, ragVars, appVars>>

\* Line 237: the answer text of a request made without a client (its leading
\* cross mark left out).
NotInitializedMessage ==
    "Gemini client not initialized. Check GEMINI_API_KEY configuration."

\* get_rag_context(question): the raw retrieval text.
RagContext == "Document 1 (relevance: 0.400):\ndoc_a"

\* What get_rag_context returns when the retrieval service raised or found
\* nothing (main.py:188-192).
NoDocumentsFound == "No relevant documents found in knowledge base."
RagResults == {RagContext, NoDocumentsFound}

\* Lines 313-323: what the handler returns for an exception raised in its
\* body (the cross mark in front of the text left out).
UnexpectedError_Propagates(e) == [raised |-> e]
UnexpectedError(e) ==
    [answer |-> "Unexpected error: " \o e, error |-> "unexpected_error"]

\* What run_mcp returns when an exception was raised inside the tool loop:
\* generate's own error text, which the loop takes for the model's answer, or
\* the error text of run_with_context's handler.
McpFailureResults == {GenerateFailed.text, McpError}

\* Every value run_mcp can hand back to /ask.
McpResults == Answers \cup McpFailureResults

\* run_mcp turns every Exception into its return value (mcp.py:312-314), so
\* the except branch at main.py:283 has nothing to catch.
RunMcpRaises == FALSE

\* The /ask handler for a request with a question, from "Step 1" to its
\* return; nothing is awaited in between, so no other request runs inside it.
\* mcp_result is what run_mcp returned.
\* rag_context is what get_rag_context returned.
AskWith(question, session_id, rag_context, mcp_result) ==
    /\ gemini_client # None
    /\ question \in Questions
    /\ session_id \in KnownIds \cup {None}
    /\ rag_context \in RagResults
    /\ mcp_result \in McpResults
    /\ LET r1 == get_or_create_session(sessions, cfg, session_id, now)
           ctx == get_conversation_context(r1.sessions, cfg, r1.session_id, question)
           answer == IF RunMcpRaises THEN rag_context ELSE mcp_result
           method_used == IF RunMcpRaises THEN "RAG_FALLBACK"
                          ELSE "MCP_WITH_COMBINED_CONTEXT"
           r2 == add_message(r1.sessions, cfg, r1.session_id, "user", question, now)
           r3 == add_message(r2.sessions, cfg, r1.session_id, "agent", answer, now)
       IN  /\ sessions' = r3.sessions
           /\ last_call' = [op |-> "ask", session_id |-> session_id,
                            question |-> question,
                            rag_context |-> rag_context,
                            mcp_result |-> mcp_result,
                            ret |-> [answer |-> answer, session_id |-> r1.session_id,
                                     conversation_context_length |->
                                         ctx.debug_info.context_length,
                                     final_method |-> method_used]]
    /\ UNCHANGED <<cfg, now>>
    /\ UNCHANGED <<loopVars, ragVars, appVars>>

\* The same with the retrieval text of a successful search.
Ask(question, session_id, mcp_result) ==
    AskWith(question, session_id, RagContext, mcp_result)

\* The request body is not a JSON object: request.json() or data.get raises
\* at lines 242-243, before the store is touched.
AskBadRequest ==
    /\ gemini_client # None
    /\ last_call' = [op |-> "ask", session_id |-> None, question |-> "",
                     ret |-> UnexpectedError("Expecting value")]
    /\ UNCHANGED <<cfg, sessions, now>>
    /\ UNCHANGED <<loopVars, ragVars, appVars>>

\* The store raises: session_id is a JSON list, which get_or_create_session
\* cannot look up (conversation_manager.py:92), after its cleanup has run.
AskBadSessionId(question) ==
    /\ gemini_client # None
    /\ question \in Questions
    /\ sessions' = cleanup_expired_sessions(sessions, cfg, now)
    /\ last_call' = [op |-> "ask", session_id |-> "[1]", question |-> question,
                     rag_context |-> None, mcp_result |-> None,
                     ret |-> UnexpectedError("unhashable type: 'list'")]
    /\ UNCHANGED <<cfg, now>>
    /\ UNCHANGED <<loopVars, ragVars, appVars>>

\* The /ask handler up to its calls of get_rag_context and run_mcp (lines
\* 241-261). The handler is a coroutine on the application's one event loop
\* and awaits nothing after request.json(), so it starts only when no other
\* call is running.
BeginQuery(question, session_id) ==
    /\ in_flight = NoRequest
    /\ gemini_client # None
    /\ question \in Questions
    /\ session_id \in KnownIds \cup {None}
    /\ LET r1 == get_or_create_session(sessions, cfg, session_id, now)
           ctx == get_conversation_context(r1.sessions, cfg, r1.session_id, question)
       IN  /\ sessions' = r1.sessions
           /\ in_flight' = [at |-> "run_mcp", question |-> question,
                            requested |-> session_id,
                            session_id |-> r1.session_id,
                            context_debug |-> ctx.debug_info]
    /\ UNCHANGED <<cfg, now, last_call>>
    /\ UNCHANGED <<loopVars, ragVars, gemini_client, previous_run, toolVars>>

\* The blocking calls take time; the handler does not yield meanwhile.
QueryWaits(d) ==
    /\ in_flight # NoRequest
    /\ d \in ClockSteps
    /\ now + d <= MaxTime
    /\ now' = now + d
    /\ UNCHANGED <<cfg, sessions, last_call>>
    /\ UNCHANGED <<loopVars, ragVars, appVars>>

\* The rest of the handler (lines 278-311): run_mcp has returned, the
\* question and the answer are stored, the response is returned.
FinishQuery(mcp_result) ==
    /\ in_flight # NoRequest
    /\ mcp_result \in Answers
    /\ LET r2 == add_message(sessions, cfg, in_flight.session_id, "user",
                             in_flight.question, now)
           r3 == add_message(r2.sessions, cfg, in_flight.session_id, "agent",
                             mcp_result, now)
       IN  /\ sessions' = r3.sessions
           /\ last_call' = [op |-> "ask", session_id |-> in_flight.requested,
                            question |-> in_flight.question,
                            rag_context |-> RagContext,
                            mcp_result |-> mcp_result,
                            ret |-> [answer |-> mcp_result,
                                     session_id |-> in_flight.session_id,
                                     conversation_context_length |->
                                         in_flight.context_debug.context_length,
                                     final_method |-> "MCP_WITH_COMBINED_CONTEXT"]]
    /\ in_flight' = NoRequest
    /\ UNCHANGED <<cfg, now>>
    /\ UNCHANGED <<loopVars, ragVars, gemini_client, previous_run, toolVars>>

\* The /ask handler when no client was built (lines 236-239): it returns
\* before it reads the request.
AskUnavailable_ResolvesSession ==
    /\ gemini_client = None
    /\ sessions' = get_or_create_session(sessions, cfg, None, now).sessions
    /\ last_call' = [op |-> "ask", session_id |-> None, question |-> "",
                     ret |-> [answer |-> NotInitializedMessage,
                              error |-> "gemini_client_not_initialized"]]
    /\ UNCHANGED <<cfg, now>>
    /\ UNCHANGED <<loopVars, ragVars, appVars>>
AskUnavailable ==
    /\ gemini_client = None
    /\ last_call' = [op |-> "ask", session_id |-> None, question |-> "",
                     ret |-> [answer |-> NotInitializedMessage,
                              error |-> "gemini_client_not_initialized"]]
    /\ UNCHANGED <<cfg, sessions, now>>
    /\ UNCHANGED <<loopVars, ragVars, appVars>>

StoreNext ==
    \/ \E d \in ClockSteps : Tick(d)
    \/ \E id \in KnownIds \cup {None} : GetOrCreateSession(id)
    \/ \E id \in ClientIds, text \in Texts : AddMessage(id, "user", text)
    \/ \E id \in ClientIds, q \in Questions : GetConversationContext(id, q)
    \/ AskWithoutQuestion
    \/ \E q \in Questions, id \in KnownIds \cup {None}, a \in Answers : Ask(q, id, a)

\* Queries only, with every outcome of the tool loop.
QueryNext ==
    \/ \E d \in ClockSteps : Tick(d)
    \/ \E q \in Questions, id \in KnownIds \cup {None}, r \in McpResults : Ask(q, id, r)

\* Requests arriving at the event loop while queries are answered.
ServeNext ==
    \/ \E d \in ClockSteps : in_flight = NoRequest /\ Tick(d)
    \/ \E q \in Questions, id \in KnownIds \cup {None} : BeginQuery(q, id)
    \/ \E d \in ClockSteps : QueryWaits(d)
    \/ \E a \in Answers : FinishQuery(a)

\* Queries of one client in which something fails: the request, the store,
\* the retrieval, the tool loop.
FailureNext ==
    \/ \E d \in ClockSteps : Tick(d)
    \/ \E q \in Questions, id \in ClientIds, rag \in RagResults, r \in McpFailureResults :
           AskWith(q, id, rag, r)
    \/ AskBadRequest
    \/ \E q \in Questions : AskBadSessionId(q)

\* The ConversationManager used directly, call after call.
ManagerNext ==
    \/ \E d \in ClockSteps : Tick(d)
    \/ \E id \in KnownIds \cup {None} : GetOrCreateSession(id)
    \/ \E id \in ClientIds, text \in Texts : AddMessage(id, "user", text)
    \/ \E id \in ClientIds, q \in Questions : GetConversationContext(id, q)

\* The ConversationManager under a clock that also moves during a call.
ClockNext ==
    \/ \E d \in ClockSteps : Tick(d)
    \/ \E id \in KnownIds \cup {None} : GetOrCreateSession(id)
    \/ \E id \in KnownIds \cup {None} : GetOrCreateSessionAcrossTick(id)
    \/ \E id \in ClientIds, text \in Texts : AddMessage(id, "user", text)

\* The store used directly, and /ask, in a process whose client was not built.
OutageNext ==
    \/ \E d \in ClockSteps : Tick(d)
    \/ \E id \in KnownIds \cup {None} : GetOrCreateSession(id)
    \/ \E id \in ClientIds, text \in Texts : AddMessage(id, "user", text)
    \/ AskUnavailable

\* The context window on one session: messages are added, the context is read.
CtxNext ==
    \/ \E id \in ClientIds, sender \in Senders, text \in Texts : AddMessage(id, sender, text)
    \/ \E id \in ClientIds, q \in Questions : GetConversationContext(id, q)

-----------------------------------------------------------------------------
(***************************************************************************)
(* The relevance filter (backend/agent/rag.py)                             *)
(***************************************************************************)

\* Scores and thresholds are cosine distances, counted in tenths.
SIMILARITY_THRESHOLD == 15
MIN_DOCUMENTS == 1

\* The longest candidate list and the largest min_docs handed to the filter.
MaxCandidates == 3
MaxMinDocs == 3

\* What the retrieval service can hand over: documents, and their distances
\* (well below, exactly at and above the default threshold).
Documents == {"doc_a", "doc_b"}
Scores == {4, SIMILARITY_THRESHOLD, 20}
Thresholds == {3, SIMILARITY_THRESHOLD}

\* Every list of at most n (doc, score) pairs.
CandidateLists(n) ==
    UNION { [1..len -> Documents \X Scores] : len \in 0..n }

\* `score <= threshold`
BelowThreshold_Strictly(score, t) == score < t
BelowThreshold(score, t) == score <= t

\* `len(filtered_docs) < min_docs and len(docs_and_scores) > 0`
TooFew_Never(filtered, candidates, m) == FALSE
TooFew(filtered, candidates, m) == Len(filtered) < m /\ Len(candidates) > 0

\* candidates[:m]
FirstN(candidates, m) ==
    SubSeq(candidates, 1, IF m < Len(candidates) THEN m ELSE Len(candidates))

filter_documents_by_similarity(candidates, t, m) ==
    IF candidates = << >> THEN << >>
    ELSE LET Passes(pair) == BelowThreshold(pair[2], t)
             filtered == SelectSeq(candidates, Passes)
         IN  IF TooFew(filtered, candidates, m)
             THEN FirstN(candidates, m)
             ELSE filtered

\* No filter call is under way.
RagIdle ==
    /\ docs_and_scores = << >>
    /\ threshold = SIMILARITY_THRESHOLD
    /\ min_docs = MIN_DOCUMENTS
    /\ filtered_docs = None
    /\ filtered_again = None

\* A call about to be made, with any arguments.
RagInit ==
    /\ docs_and_scores \in CandidateLists(MaxCandidates)
    /\ threshold \in Thresholds
    /\ min_docs \in 1..MaxMinDocs
    /\ filtered_docs = None
    /\ filtered_again = None

\* The call builds new lists (lines 51, 55) and assigns nothing to its
\* arguments; the caller's list is as it was.
FilterDocuments_InPlace ==
    /\ filtered_docs = None
    /\ filtered_docs' = filter_documents_by_similarity(docs_and_scores, threshold, min_docs)
    /\ docs_and_scores' = filtered_docs'
    /\ UNCHANGED <<threshold, min_docs, filtered_again>>
    /\ UNCHANGED <<loopVars, storeVars, appVars>>
FilterDocuments ==
    /\ filtered_docs = None
    /\ filtered_docs' = filter_documents_by_similarity(docs_and_scores, threshold, min_docs)
    /\ UNCHANGED <<docs_and_scores, threshold, min_docs, filtered_again>>
    /\ UNCHANGED <<loopVars, storeVars, appVars>>

\* A second call by the same caller, with the list and the numbers it still
\* holds.
FilterAgain ==
    /\ filtered_docs # None
    /\ filtered_again = None
    /\ filtered_again' = filter_documents_by_similarity(docs_and_scores, threshold, min_docs)
    /\ UNCHANGED <<docs_and_scores, threshold, min_docs, filtered_docs>>
    /\ UNCHANGED <<loopVars, storeVars, appVars>>

\* No execute_tool call is being looked at.
ToolIdle ==
    /\ tool_arguments = << >>
    /\ handler_calls = << >>
    /\ handler_result = None

\* A call about to be made on a registered tool, with any arguments mapping.
ToolInit ==
    /\ \E keys \in SUBSET ArgumentKeys :
           tool_arguments = [key \in keys |-> "value of " \o key]
    /\ handler_calls = << >>
    /\ handler_result = None

\* execute_tool(tool_name, arguments) for a registered tool: the handler is
\* called at one of lines 79-96 and its string, or the error text for what it
\* raised, is returned.
ExecuteToolCall(tool_name, handler_raises) ==
    /\ handler_result = None
    /\ tool_name \in RegisteredTools
    /\ handler_calls' = Append(handler_calls, HandlerArguments(tool_arguments))
    /\ handler_result' = execute_tool(tool_name, tool_arguments, handler_raises)
    /\ UNCHANGED <<tool_arguments, gemini_client, in_flight, previous_run>>
    /\ UNCHANGED <<loopVars, storeVars, ragVars>>

-----------------------------------------------------------------------------
(***************************************************************************)
(* Specifications                                                          *)
(***************************************************************************)

\* The store and the /ask handler under a moving clock.
Init == LoopInit /\ StoreInit(StoreConfig) /\ RagIdle /\ ClientReady /\ ToolIdle /\ NoQuery
Next == StoreNext
Spec == Init /\ [][Next]_vars

\* One run of the tool loop against every completion service.
LoopSpec == Init /\ [][LoopNext]_vars

\* One session filled message by message, its context read at every length.
CtxInit == LoopInit /\ StoreInit(CtxConfig) /\ RagIdle /\ ClientReady /\ ToolIdle /\ NoQuery
CtxSpec == CtxInit /\ [][CtxNext]_vars

\* The /ask handler over tool-loop runs that succeed and that fail.
QuerySpec == Init /\ [][QueryNext]_vars

\* Queries as the event loop runs them, the blocking calls made visible.
ServeSpec == Init /\ [][ServeNext]_vars

\* The ConversationManager under any sequence of its public calls.
ManagerSpec == Init /\ [][ManagerNext]_vars

\* The ConversationManager with clock reads that differ within one call.
ClockSpec == Init /\ [][ClockNext]_vars

\* The tool loop run for one query after another.
RunsSpec == Init /\ [][RunsNext]_vars

\* The /ask handler over requests that meet a failure.
FailureSpec == Init /\ [][FailureNext]_vars

\* A process that started without a completion client.
OutageInit == LoopInit /\ StoreInit(StoreConfig) /\ RagIdle /\ ClientFailed /\ ToolIdle /\ NoQuery
OutageSpec == OutageInit /\ [][OutageNext]_vars

\* One execute_tool call on every arguments mapping.
DispatchInit == LoopInit /\ StoreInit(StoreConfig) /\ RagIdle /\ ClientReady /\ ToolInit /\ NoQuery
DispatchNext ==
    \E tool_name \in RegisteredTools, handler_raises \in BOOLEAN :
        ExecuteToolCall(tool_name, handler_raises)
DispatchSpec == DispatchInit /\ [][DispatchNext]_vars

\* One call of the relevance filter on every candidate list.
FilterInit == LoopInit /\ StoreInit(StoreConfig) /\ RagInit /\ ClientReady /\ ToolIdle /\ NoQuery
FilterNext == FilterDocuments \/ FilterAgain
FilterSpec == FilterInit /\ [][FilterNext]_vars

-----------------------------------------------------------------------------
(***************************************************************************)
(* Properties of the tool loop (checked under LoopSpec)                    *)
(***************************************************************************)

\* Turns of this run that were rejected as consecutive duplicates: each one
\* appended a warning to the system prompt.
DuplicateRejections ==
    Cardinality({ i \in DOMAIN system_prompt : system_prompt[i].kind = "warning" })

\* C1: anti-duplication. The ordered list of ToolCallRecords never holds two
\* adjacent records with the same tool name, whatever the completion service
\* answers.
C1_NoAdjacentDuplicateRecords ==
    \A i \in 1..(Len(all_tool_results) - 1) :
        all_tool_results[i].tool # all_tool_results[i + 1].tool

\* C1 witness: a repeated request was rejected and the run went on to record
\* further tool calls.
C1_Witness ==
    /\ DuplicateRejections >= 1
    /\ Len(all_tool_results) >= 3

\* C2: termination. The number of duplicate-rejected turns of one run is
\* bounded by the call ceiling, so the loop cannot be kept in AWAITING_MODEL
\* by a completion service that asks for the same tool on every turn.
C2_DuplicateTurnsBoundedByCeiling ==
    DuplicateRejections <= max_tool_calls

\* Every completion of this run so far was a well-formed request for a tool
\* other than the one executed before it.
EveryTurnExecuted ==
    /\ DuplicateRejections = 0
    /\ IsToolCall(response)

\* C3: ceiling termination. When every turn requests a non-duplicate tool, the
\* loop is left after exactly 5 executed calls (5 records, 5 in-loop
\* completions), one synthesis completion follows and its text is returned.
C3_CeilingTermination ==
    EveryTurnExecuted =>
        /\ tool_calls_made <= 5
        /\ pc = "AWAITING_MODEL" => generate_calls = tool_calls_made
        /\ pc # "AWAITING_MODEL" =>
               /\ tool_calls_made = 5
               /\ Len(all_tool_results) = 5
               /\ execute_calls = 5
        /\ pc = "SYNTHESIZING" => generate_calls = 5
        /\ pc = "DONE" =>
               /\ generate_calls = 5 + 1
               /\ final_response \in SynthesisTexts
               /\ result = final_response

\* C3 witness: a run of five alternating tool calls that was synthesized.
C3_Witness ==
    /\ pc = "DONE"
    /\ EveryTurnExecuted
    /\ Len(all_tool_results) = 5
    /\ result = "synthesized answer"

\* The step is one turn of the loop: a completion is asked for at the top of
\* the while loop.
LoopTurn == pc = "AWAITING_MODEL" /\ generate_calls' = generate_calls + 1

\* The text starts with the given prefix.
StartsWith(text, prefix) ==
    Len(text) >= Len(prefix) /\ SubSeq(text, 1, Len(prefix)) = prefix

\* C14: no-tool passthrough. When the first completion of a run lacks "{" or
\* lacks "}", the loop is over, that completion is the only one asked for, no
\* tool was executed, no ToolCallRecord exists, and the run returns exactly
\* the completion's text.
C14_NoToolPassthrough ==
    ( /\ response # NoCompletion
      /\ system_prompt = << >>
      /\ ~(response.open /\ response.close) )
    => /\ pc # "AWAITING_MODEL"
       /\ generate_calls = 1
       /\ execute_calls = 0
       /\ all_tool_results = << >>
       /\ pc = "DONE" => result = response.text

\* C14 witness: a run whose first completion had an opening brace and no
\* closing one returned that text.
C14_Witness ==
    /\ pc = "DONE"
    /\ system_prompt = << >>
    /\ response.open /\ ~response.close
    /\ result = "{ unbalanced"

\* C15: duplicate-guard transition. A turn whose completion is a well-formed
\* request for the tool used last executes nothing, adds no record, leaves the
\* executed-call counter and the last-used tool as they were, appends a
\* warning to the system prompt and stays at the top of the loop, where the
\* model is asked again.
C15_DuplicateGuardTransition ==
    [][ ( /\ LoopTurn
          /\ IsToolCall(response')
          /\ response'.tool = last_used_tool )
        => /\ execute_calls' = execute_calls
           /\ all_tool_results' = all_tool_results
           /\ tool_calls_made' = tool_calls_made
           /\ last_used_tool' = last_used_tool
           /\ system_prompt'
                  = Append(system_prompt, [kind |-> "warning", tool |-> response'.tool])
           /\ pc' = "AWAITING_MODEL"
           /\ result' = result ]_vars

\* C15 witness: the tool executed last was requested again and the request
\* was answered with a warning; the loop waits for the next completion.
C15_Witness ==
    /\ pc = "AWAITING_MODEL"
    /\ last_used_tool \in RegisteredTools
    /\ IsToolCall(response)
    /\ response.tool = last_used_tool
    /\ system_prompt # << >>
    /\ system_prompt[Len(system_prompt)] = [kind |-> "warning", tool |-> last_used_tool]
    /\ tool_calls_made = 1
    /\ generate_calls = 2

\* C16: synthesis rule. Once the loop is over, the next step returns: with at
\* least one ToolCallRecord it makes exactly one more completion call and
\* returns that call's text; with no record it makes no call and returns the
\* last in-loop completion unchanged. Nothing happens after the return.
C16_SynthesisRule ==
    [][ /\ pc = "SYNTHESIZING"
            => /\ pc' = "DONE"
               /\ IF all_tool_results # << >>
                  THEN /\ generate_calls' = generate_calls + 1
                       /\ final_response' \in SynthesisTexts
                       /\ result' = final_response'
                  ELSE /\ generate_calls' = generate_calls
                       /\ result' = response.text
        /\ pc # "DONE" ]_vars

\* C16 witness: a run with two records whose last in-loop completion was a
\* plain answer returned the synthesis text instead.
C16_Witness ==
    /\ pc = "DONE"
    /\ Len(all_tool_results) = 2
    /\ response.text = "plain answer"
    /\ final_response = "synthesized answer"
    /\ result = "synthesized answer"
    /\ generate_calls = 4

\* C18: execute_tool never raises. A turn that executes a tool records a
\* string: the 'not found' text when no registered tool has the requested
\* name, otherwise the handler's output or, when the handler raised, a text
\* starting with 'Tool execution error:'. In every case the loop goes on as
\* after ordinary output: the call is counted, the tool remembered, the result
\* added to the system prompt, and the model is asked again.
C18_ExecuteNeverRaises ==
    [][ ( LoopTurn /\ execute_calls' = execute_calls + 1 )
        => LET name == response'.tool
               n == Len(all_tool_results')
           IN  /\ n = Len(all_tool_results) + 1
               /\ all_tool_results'[n].tool = name
               /\ IF name \in RegisteredTools
                  THEN \/ all_tool_results'[n].result = HandlerOutput(name)
                       \/ StartsWith(all_tool_results'[n].result, "Tool execution error:")
                  ELSE all_tool_results'[n].result = "Tool '" \o Str(name) \o "' not found"
               /\ tool_calls_made' = tool_calls_made + 1
               /\ last_used_tool' = name
               /\ system_prompt'
                      = Append(system_prompt, [kind |-> "tool_result", tool |-> name])
               /\ pc' = "AWAITING_MODEL"
               /\ result' = result ]_vars

\* C18 witness: a handler raised, then an unregistered tool was requested,
\* and the run went on to execute a third call.
C18_Witness ==
    /\ Len(all_tool_results) = 3
    /\ StartsWith(all_tool_results[1].result, "Tool execution error:")
    /\ all_tool_results[2].result = "Tool 'no_such_tool' not found"
    /\ all_tool_results[3].result = HandlerOutput(all_tool_results[3].tool)

\* The text between the first "{" and the last "}" of the completion does not
\* parse as JSON, or parses to a map without "tool" or without "arguments".
Malformed(r) ==
    r.open /\ r.close /\ ~(r.decodes /\ r.has_tool /\ r.has_arguments)

\* C26: malformed model output. A turn whose completion is malformed
\* executes no tool and adds no record, and ends the loop with that completion
\* as the final response: the run goes on to the return of the response (or,
\* after earlier tool calls, to synthesis) and no error is reported.
C26_MalformedOutputIsFinal ==
    [][ LoopTurn /\ Malformed(response')
        => /\ execute_calls' = execute_calls
           /\ all_tool_results' = all_tool_results
           /\ pc' = "SYNTHESIZING"
           /\ result' = result
           /\ ~StartsWith(result', "[MCP Error]") ]_vars

\* C30: counter invariant. In every state of the tool loop the executed-call
\* counter equals the number of ToolCallRecords and the number of execute_tool
\* invocations, and is at most the ceiling; the last-used tool is unset
\* exactly when the counter is 0, and otherwise is the tool name of the last
\* record.
C30_CounterInvariant ==
    /\ tool_calls_made = Len(all_tool_results)
    /\ tool_calls_made = execute_calls
    /\ tool_calls_made <= max_tool_calls
    /\ last_used_tool = None <=> tool_calls_made = 0
    /\ tool_calls_made > 0
           => last_used_tool = all_tool_results[Len(all_tool_results)].tool

\* C34: unregistered tool request. A well-formed request naming a tool that
\* is not registered is executed like any other: a record with the 'not
\* found' result is added, the executed-call counter goes up by one, the name
\* becomes the last-used tool and the loop asks the model again; a request
\* that repeats the name of the last record is rejected as a duplicate.
C34_UnregisteredToolExecuted ==
    [][ ( /\ LoopTurn
          /\ IsToolCall(response')
          /\ response'.tool # None
          /\ response'.tool \notin RegisteredTools )
        => LET name == response'.tool
               n == Len(all_tool_results)
               repeated == n > 0 /\ all_tool_results[n].tool = name
           IN  IF repeated
               THEN /\ all_tool_results' = all_tool_results
                    /\ execute_calls' = execute_calls
                    /\ tool_calls_made' = tool_calls_made
                    /\ pc' = "AWAITING_MODEL"
               ELSE /\ Len(all_tool_results') = n + 1
                    /\ all_tool_results'[n + 1].tool = name
                    /\ all_tool_results'[n + 1].result
                           = "Tool '" \o name \o "' not found"
                    /\ SubSeq(all_tool_results', 1, n) = all_tool_results
                    /\ execute_calls' = execute_calls + 1
                    /\ tool_calls_made' = tool_calls_made + 1
                    /\ last_used_tool' = name
                    /\ pc' = "AWAITING_MODEL" ]_vars

\* C34 witness: an unregistered tool was requested, recorded as not found,
\* requested again at once and turned away with a warning.
C34_Witness ==
    /\ pc = "AWAITING_MODEL"
    /\ all_tool_results # << >>
    /\ all_tool_results[Len(all_tool_results)]
           = [tool |-> "no_such_tool", arguments |-> "{...}",
              result |-> "Tool 'no_such_tool' not found"]
    /\ last_used_tool = "no_such_tool"
    /\ response.tool = "no_such_tool"
    /\ system_prompt[Len(system_prompt)] = [kind |-> "warning", tool |-> "no_such_tool"]

\* C37: per-query isolation of the tool loop. Each run starts with no
\* records, counter 0 and no last-used tool, whatever the run before it left
\* behind; so the first completion of a run, when it requests a tool by name,
\* is executed, also when the run before ended on that tool; and no step of
\* the tool loop changes the conversation store.
C37_PerQueryIsolation ==
    [][ /\ UNCHANGED storeVars
        /\ pc = "DONE" /\ pc' = "AWAITING_MODEL"
               => /\ all_tool_results' = << >>
                  /\ tool_calls_made' = 0
                  /\ execute_calls' = 0
                  /\ last_used_tool' = None
        /\ ( /\ LoopTurn
             /\ generate_calls = 0
             /\ IsToolCall(response')
             /\ response'.tool # None )
               => /\ execute_calls' = 1
                  /\ Len(all_tool_results') = 1
                  /\ all_tool_results'[1].tool = response'.tool ]_vars

\* C37 witness: the run before this one ended on the calculator, and the first
\* completion of this run asked for the calculator and had it executed.
C37_Witness ==
    /\ previous_run.last_used_tool = "calculator"
    /\ generate_calls = 1
    /\ response.tool = "calculator"
    /\ Len(all_tool_results) = 1
    /\ all_tool_results[1].tool = "calculator"

-----------------------------------------------------------------------------
(***************************************************************************)
(* Properties of the conversation store (checked under Spec, CtxSpec and  *)
(* ManagerSpec)                                                            *)
(***************************************************************************)

\* The step is a call of the named store operation (the clock moves only
\* between calls, and every call leaves its record in last_call).
CallOf(op) == now' = now /\ last_call'.op = op

\* The step is an /ask request that was answered from the store and the model.
AnsweredAsk == CallOf("ask") /\ last_call'.question # ""

\* The session has been inactive for longer than the session timeout.
Stale(s) == now - s.last_activity > cfg.session_timeout_minutes * 60

\* The session's last message is older than the consecutive timeout.
MovedOn(s) ==
    /\ s.messages # << >>
    /\ now - s.messages[Len(s.messages)].timestamp > cfg.consecutive_timeout_minutes * 60

\* The session object s (its id and creation time) is among those of store S.
StillHeld(s, S) ==
    \E j \in DOMAIN S : /\ S[j].session_id = s.session_id
                        /\ S[j].created_at = s.created_at

\* The last n elements of a sequence, in order.
LastN(seq, n) ==
    IF Len(seq) <= n THEN seq ELSE [i \in 1..n |-> seq[Len(seq) - n + i]]

\* C4: eviction bound. After a get_or_create_session call returns, the store
\* holds at most max_sessions sessions.
C4_EvictionBound ==
    last_call.op = "get_or_create_session" => Len(sessions) <= cfg.max_sessions

\* Every session that was stale before the step is gone after it.
StaleSessionsDropped ==
    \A i \in DOMAIN sessions :
        Stale(sessions[i]) => ~StillHeld(sessions[i], sessions')

C6_LiveSessionKept ==
    [][ ( /\ CallOf("get_or_create_session")
          /\ last_call'.session_id # None
          /\ Has(sessions, last_call'.session_id)
          /\ ~Stale(Get(sessions, last_call'.session_id)) )
        => LET id == last_call'.session_id
           IN  /\ last_call'.ret = id
               /\ Has(sessions', id)
               /\ Get(sessions', id).last_activity = now
               /\ Get(sessions', id).messages = Get(sessions, id).messages ]_vars

\* C7: get_or_create_session without an id returns an id that was not a key
\* of the store before the call and registers an empty session under it;
\* every session that is still in the store keeps its messages.
C7_FreshIdForNewSession ==
    [][ ( CallOf("get_or_create_session") /\ last_call'.session_id = None )
        => /\ ~Has(sessions, last_call'.ret)
           /\ Has(sessions', last_call'.ret)
           /\ Get(sessions', last_call'.ret).messages = << >>
           /\ \A i \in DOMAIN sessions :
                  Has(sessions', sessions[i].session_id) =>
                      Get(sessions', sessions[i].session_id).messages
                          = sessions[i].messages ]_vars

\* C8: after /ask returns, the session named by the returned session_id ends
\* with the question as a user message followed by the answer as an agent
\* message.
C8_QuestionAndAnswerRecorded ==
    last_call.op = "ask" /\ last_call.question # "" =>
        /\ Has(sessions, last_call.ret.session_id)
        /\ LET messages == Get(sessions, last_call.ret.session_id).messages
               n == Len(messages)
           IN  /\ n >= 2
               /\ messages[n - 1].sender = "user"
               /\ messages[n - 1].text = last_call.question
               /\ messages[n].sender = "agent"
               /\ messages[n].text = last_call.ret.answer

\* C9: trim bound. An add_message call on a session that is in the store, with
\* no time gap, leaves it holding the last max_messages_per_session of its
\* previous messages followed by the new one, in that order; so once more
\* than max_messages_per_session messages were added it holds exactly that
\* many, the most recent ones.
C9_TrimKeepsMostRecent ==
    [][ ( /\ CallOf("add_message")
          /\ Has(sessions, last_call'.session_id)
          /\ ~MovedOn(Get(sessions, last_call'.session_id)) )
        => LET id == last_call'.session_id
               added == Message(last_call'.sender, last_call'.text, now, id)
           IN  /\ Has(sessions', id)
               /\ Get(sessions', id).messages
                      = LastN(Append(Get(sessions, id).messages, added),
                              cfg.max_messages_per_session)
               /\ Len(Get(sessions, id).messages) >= cfg.max_messages_per_session
                      => Len(Get(sessions', id).messages)
                             = cfg.max_messages_per_session ]_vars

\* C9 witness: a session that took a question, its answer and one more user
\* message now starts with the answer: the question was trimmed away.
C9_Witness ==
    /\ last_call.op = "add_message"
    /\ Has(sessions, "s1")
    /\ LET messages == Get(sessions, "s1").messages
       IN  /\ Len(messages) = cfg.max_messages_per_session
           /\ Len(messages) = 2
           /\ messages[1].sender = "agent"
           /\ messages[2].sender = "user"

\* C10: context budget. The text get_conversation_context returns is never
\* longer than max_context_length plus the length of the current-question
\* line.
C10_ContextWithinBudget ==
    last_call.op = "get_conversation_context" =>
        Len(last_call.context)
            <= cfg.max_context_length + Len("user: " \o last_call.current_question)

\* The lines of a sequence of messages, in the sequence's order.
Rendered(messages) == [i \in DOMAIN messages |-> MessageText(messages[i])]

\* C11: context truncation drops the oldest first. The text returned by
\* get_conversation_context is the rendering, oldest line first, of the last
\* k messages of the session for some k, optionally followed by the line of
\* the current question: the included messages are a contiguous suffix of the
\* session's messages in chronological order.
C11_ContextIsRecentSuffix ==
    ( /\ last_call.op = "get_conversation_context"
      /\ Has(sessions, last_call.session_id)
      /\ Get(sessions, last_call.session_id).messages # << >> )
    => LET messages == Get(sessions, last_call.session_id).messages
           question_line == "user: " \o last_call.current_question
       IN  \E k \in 0..Len(messages) :
               LET lines == Rendered(LastN(messages, k))
               IN  \/ last_call.context = JoinLines(lines)
                   \/ last_call.context = JoinLines(Append(lines, question_line))

\* C11 witness: a context was built from a session whose oldest message was
\* left out while at least two lines of different senders were included.
C11_Witness ==
    /\ last_call.op = "get_conversation_context"
    /\ Has(sessions, last_call.session_id)
    /\ LET messages == Get(sessions, last_call.session_id).messages
           n == Len(messages)
       IN  /\ n >= 3
           /\ last_call.debug_info.message_count < n
           /\ last_call.debug_info.message_count >= 2
           /\ messages[n].sender # messages[n - 1].sender

\* The session s is in store S as it was: same id, creation time and messages.
Retained(s, S) ==
    \E j \in DOMAIN S : /\ S[j].session_id = s.session_id
                        /\ S[j].created_at = s.created_at
                        /\ S[j].messages = s.messages

DroppedThenAppended(pre, post, d, a) ==
    /\ Len(post) = Len(pre) - d + a
    /\ \A i \in 1..(Len(pre) - d) : post[i] = pre[d + i]

\* C22: append-only messages. Across any store operation, a session that
\* stays in the store under the same id (the same session object: same id and
\* creation time) has its messages changed only by appending at the end (one
\* message per add_message, the question and the answer for an /ask request)
\* and by dropping from the oldest end; its newest message is never removed
\* while nothing is appended.
C22_AppendOnlyMessages ==
    [][ \A i \in DOMAIN sessions :
          \A j \in DOMAIN sessions' :
            ( /\ sessions'[j].session_id = sessions[i].session_id
              /\ sessions'[j].created_at = sessions[i].created_at )
            => LET pre == sessions[i].messages
                   post == sessions'[j].messages
               IN  \E d \in 0..Len(pre), a \in 0..2 :
                       /\ DroppedThenAppended(pre, post, d, a)
                       /\ a = 0 /\ pre # << >> => d < Len(pre) ]_vars

\* The text holds the line of every message of the session, with or without
\* the line of the current question after them.
AllMessagesIncluded(context, messages, current_question) ==
    \/ context = JoinLines(Rendered(messages))
    \/ context = JoinLines(Append(Rendered(messages), "user: " \o current_question))

\* C25: truncation flag. The stats record of a get_conversation_context call
\* on a session with messages reports context_truncated = true exactly when
\* at least one message of the session is missing from the returned text.
C25_TruncationFlag ==
    ( /\ last_call.op = "get_conversation_context"
      /\ Has(sessions, last_call.session_id)
      /\ Get(sessions, last_call.session_id).messages # << >> )
    => ( last_call.debug_info.context_truncated
           <=> ~AllMessagesIncluded(last_call.context,
                                    Get(sessions, last_call.session_id).messages,
                                    last_call.current_question) )

\* C19: time-gap rule. An add_message call on a session whose most recent
\* message is older than the consecutive timeout creates a session under an
\* id that was not in the store, appends the message to that session, and
\* leaves the messages of the original session as they were.
C19_TimeGapStartsNewSession ==
    [][ ( /\ CallOf("add_message")
          /\ Has(sessions, last_call'.session_id)
          /\ MovedOn(Get(sessions, last_call'.session_id)) )
        => LET id == last_call'.session_id
               new == last_call'.stored_in
           IN  /\ new # id
               /\ ~Has(sessions, new)
               /\ Has(sessions', new)
               /\ Get(sessions', new).messages
                      = <<Message(last_call'.sender, last_call'.text, now, new)>>
               /\ Has(sessions', id)
                      => Get(sessions', id).messages = Get(sessions, id).messages ]_vars

\* C20: missing-session recovery. An add_message call on an id that is not in
\* the store registers a session under that id, appends the message to it and
\* returns True.
C20_MissingSessionRecovered ==
    [][ ( /\ CallOf("add_message")
          /\ ~Has(sessions, last_call'.session_id) )
        => LET id == last_call'.session_id
           IN  /\ last_call'.ret = TRUE
               /\ last_call'.stored_in = id
               /\ Has(sessions', id)
               /\ Get(sessions', id).created_at = now
               /\ Get(sessions', id).messages
                      = <<Message(last_call'.sender, last_call'.text, now, id)>> ]_vars

\* C20 witness: after the clock has passed the session timeout, add_message
\* put its message into a session created by the same call under the id it
\* was given, next to a session that was handed out earlier.
C20_Witness ==
    /\ last_call.op = "add_message"
    /\ last_call.stored_in = last_call.session_id
    /\ last_call.ret = TRUE
    /\ now > cfg.session_timeout_minutes * 60
    /\ Has(sessions, last_call.session_id)
    /\ LET s == Get(sessions, last_call.session_id)
       IN  /\ s.created_at = now
           /\ Len(s.messages) = 1
           /\ s.messages[1].timestamp = now
    /\ Len(sessions) = 2
    /\ sessions[2].session_id = last_call.session_id

-----------------------------------------------------------------------------
(***************************************************************************)
(* Properties of the relevance filter (checked under FilterSpec)           *)
(***************************************************************************)

\* The filter has returned.
Filtered == filtered_docs # None

\* The candidates at or under the threshold, in input order.
Relevant(candidates) ==
    LET AtOrUnder(pair) == pair[2] <= threshold IN SelectSeq(candidates, AtOrUnder)

\* The smaller of two numbers.
Smaller(a, b) == IF a < b THEN a ELSE b

\* The candidates are in best-first order: distances never decrease.
BestFirst(candidates) ==
    \A i, j \in DOMAIN candidates : i < j => candidates[i][2] <= candidates[j][2]

\* C12 (as stated): relevance floor. For a non-empty candidate list and
\* min_docs >= 1 the filter returns at least min_docs documents.
C12_AtLeastMinDocs ==
    (Filtered /\ docs_and_scores # << >> /\ min_docs >= 1)
        => Len(filtered_docs) >= min_docs

\* C12 (amended): relevance floor. For a non-empty candidate list and
\* min_docs >= 1 the filter returns at least min_docs documents, or all the
\* candidates when there are fewer than min_docs of them, even when no
\* candidate is at or under the threshold; one candidate above the threshold
\* with min_docs = 1 comes back as exactly that candidate.
C12_AtLeastMinDocsOrAll ==
    (Filtered /\ docs_and_scores # << >> /\ min_docs >= 1)
        => /\ Len(filtered_docs) >= Smaller(min_docs, Len(docs_and_scores))
           /\ ( /\ Len(docs_and_scores) = 1
                /\ docs_and_scores[1][2] > threshold
                /\ min_docs = 1 ) => filtered_docs = docs_and_scores

\* C12 witness: the filter ran on candidates that are all above the threshold
\* and returned min_docs = 2 of the three.
C12_Witness ==
    /\ Filtered
    /\ Len(docs_and_scores) = 3
    /\ Relevant(docs_and_scores) = << >>
    /\ min_docs = 2
    /\ Len(filtered_docs) = 2

\* The result the filter is to give for a candidate list: every candidate at
\* or under the threshold, in input order; candidates above the threshold are
\* there only when fewer than min_docs are at or under it, and then the result
\* is the first min_docs candidates.
FilterResultAsClaimed ==
    /\ Relevant(filtered_docs) = Relevant(docs_and_scores)
    /\ IF Len(Relevant(docs_and_scores)) >= min_docs
       THEN filtered_docs = Relevant(docs_and_scores)
       ELSE filtered_docs
                = [i \in 1..Smaller(min_docs, Len(docs_and_scores)) |-> docs_and_scores[i]]

\* C13 (as stated): relevance filter result, for every candidate list.
C13_FilterResult ==
    Filtered => FilterResultAsClaimed

\* C13 (amended): relevance filter result, for every candidate list that is
\* in best-first order, as the retrieval service hands it over.
C13_FilterResultBestFirst ==
    (Filtered /\ BestFirst(docs_and_scores)) => FilterResultAsClaimed

\* C13 witness: of three candidates in best-first order one is under the
\* threshold, one at it and one above; with min_docs = 1 the first two are
\* returned.
C13_Witness ==
    /\ Filtered
    /\ BestFirst(docs_and_scores)
    /\ Len(docs_and_scores) = 3
    /\ docs_and_scores[1][2] < threshold
    /\ docs_and_scores[2][2] = threshold
    /\ docs_and_scores[3][2] > threshold
    /\ min_docs = 1
    /\ filtered_docs = <<docs_and_scores[1], docs_and_scores[2]>>

-----------------------------------------------------------------------------
(***************************************************************************)
(* Properties of the /ask handler (checked under QuerySpec, OutageSpec and *)
(* FailureSpec)                                                            *)
(***************************************************************************)

\* C17: tool-loop failure fallback. When an exception was raised by a
\* completion call or a tool execution inside the tool loop of a query, the
\* query's answer is the raw retrieval text and its method is RAG_FALLBACK.
C17_LoopFailureFallsBackToRetrieval ==
    ( /\ last_call.op = "ask"
      /\ last_call.question # ""
      /\ last_call.mcp_result \in {"[Gemini API Error] quota",
                                    "[MCP Error] maximum recursion depth exceeded"} )
    => /\ last_call.ret.answer = last_call.rag_context
       /\ last_call.ret.final_method = "RAG_FALLBACK"

\* C28: startup unavailability. In a process whose completion client failed
\* to initialise, every /ask request returns a response marked
\* 'gemini_client_not_initialized' and leaves the store as it was: no session
\* created, refreshed or evicted, no message added.
C28_UnavailableLeavesStore ==
    [][ CallOf("ask") /\ gemini_client = None
        => /\ last_call'.ret.error = "gemini_client_not_initialized"
           /\ last_call'.ret.answer = NotInitializedMessage
           /\ sessions' = sessions ]_vars

\* C28 witness: a request was turned away while the store held a session with
\* a message that had outlived the session timeout, which any session
\* resolution would have removed.
C28_Witness ==
    /\ gemini_client = None
    /\ last_call.op = "ask"
    /\ last_call.ret.error = "gemini_client_not_initialized"
    /\ \E i \in DOMAIN sessions : Stale(sessions[i]) /\ sessions[i].messages # << >>

\* C23: no exception reaches the caller of /ask. Whatever the request and
\* whatever fails (the completion service, the retrieval service, a tool run
\* inside the tool loop, the store), the handler returns a response that
\* carries a textual answer; it does not raise.
C23_AskAlwaysAnswers ==
    last_call.op = "ask" =>
        /\ "raised" \notin DOMAIN last_call.ret
        /\ "answer" \in DOMAIN last_call.ret
        /\ last_call.ret.answer \in STRING

\* C23 witness: the store raised on a request's session id after a query
\* whose tool loop had failed was answered with the failure text, and the
\* request got the answer text of the handler's last resort.
C23_Witness ==
    /\ last_call.op = "ask"
    /\ last_call.session_id = "[1]"
    /\ StartsWith(last_call.ret.answer, "Unexpected error: ")
    /\ \E i \in DOMAIN sessions :
           /\ Len(sessions[i].messages) = 2
           /\ sessions[i].messages[2].text \in McpFailureResults

-----------------------------------------------------------------------------
(***************************************************************************)
(* Properties of execute_tool's dispatch (checked under DispatchSpec)      *)
(***************************************************************************)

\* The keys execute_tool looks for, in the order of their priority.
Priority ==
    <<"query", "question", "location", "expression", "url", "operation", "timezone">>

\* C27: argument dispatch priority. A call of execute_tool on a registered
\* tool invokes the handler exactly once: with the value of the first key of
\* query, question, location, expression, url, operation, timezone that the
\* arguments mapping holds (for operation, followed by the values of
\* filename and content, None where absent), and with the stringified
\* arguments when it holds none of them.
C27_DispatchPriority ==
    handler_result # None =>
        /\ Len(handler_calls) = 1
        /\ LET present == { i \in DOMAIN Priority : Priority[i] \in DOMAIN tool_arguments }
               first == CHOOSE i \in present : \A j \in present : i <= j
               Value(key) == IF key \in DOMAIN tool_arguments
                             THEN tool_arguments[key] ELSE None
           IN  IF present = {}
               THEN handler_calls[1] = <<[str |-> tool_arguments]>>
               ELSE IF Priority[first] = "operation"
               THEN handler_calls[1] = <<tool_arguments["operation"],
                                         Value("filename"), Value("content")>>
               ELSE handler_calls[1] = <<tool_arguments[Priority[first]]>>

\* C27 witness: a call whose arguments held question, query and url went to
\* the handler with the value of query.
C27_Witness ==
    /\ handler_result # None
    /\ DOMAIN tool_arguments = {"question", "query", "url"}
    /\ handler_calls = << <<"value of query">> >>

-----------------------------------------------------------------------------
(***************************************************************************)
(* Properties of concurrent queries (checked under ServeSpec)              *)
(***************************************************************************)

\* C24: store synchronization. Store mutations of concurrent queries are
\* atomic, and the exclusion that makes them so is not held across the
\* completion and retrieval calls: while one query is inside those calls,
\* another query can carry out its session lookup on the store.
C24_StoreFreeDuringCompletion ==
    in_flight # NoRequest =>
        ENABLED (\E q \in Questions, id \in KnownIds \cup {None} : BeginQuery(q, id))

-----------------------------------------------------------------------------
(***************************************************************************)
(* Invariants of the conversation store (checked under ManagerSpec)        *)
(***************************************************************************)

\* C31: store size invariant. Between any two operations the store holds at
\* most max_sessions + 1 sessions.
C31_StoreSizeBound ==
    Len(sessions) <= cfg.max_sessions + 1

\* C31 witness: a session resolution left the store one session above
\* max_sessions, none of them stale.
C31_Witness ==
    /\ last_call.op = "get_or_create_session"
    /\ Len(sessions) = cfg.max_sessions + 1
    /\ \A i \in DOMAIN sessions : ~Stale(sessions[i])
    /\ now > 0

\* C32: per-session message bound. Between any two operations every session
\* holds at most max_messages_per_session messages.
C32_MessageBound ==
    \A i \in DOMAIN sessions :
        Len(sessions[i].messages) <= cfg.max_messages_per_session

\* C32 witness: a message was added to a session that is now full.
C32_Witness ==
    /\ last_call.op = "add_message"
    /\ Has(sessions, last_call.stored_in)
    /\ Len(Get(sessions, last_call.stored_in).messages) = cfg.max_messages_per_session

\* C33: get_conversation_context is read-only. A call leaves the store as it
\* was (no session created, removed or refreshed, no message changed), and for
\* an id that is not in the store, or whose session has no messages, it
\* returns the empty text with message_count 0.
C33_ContextReadOnly ==
    [][ CallOf("get_conversation_context")
        => /\ sessions' = sessions
           /\ ( \/ ~Has(sessions, last_call'.session_id)
                \/ Get(sessions, last_call'.session_id).messages = << >> )
              => /\ last_call'.context = ""
                 /\ last_call'.debug_info.message_count = 0 ]_vars

\* C33 witness: the context of an id that is not in the store was asked for
\* while the store held a stale session, which is still there.
C33_Witness ==
    /\ last_call.op = "get_conversation_context"
    /\ ~Has(sessions, last_call.session_id)
    /\ last_call.context = ""
    /\ \E i \in DOMAIN sessions : Stale(sessions[i])

\* C35: message ownership. The store holds one session per key, each under
\* its own session_id, and every message of a session carries that session's
\* id, also when the message was redirected to a new session by the time-gap
\* rule or added through missing-session recovery.
C35_MessageOwnership ==
    /\ \A i, j \in DOMAIN sessions :
           sessions[i].session_id = sessions[j].session_id => i = j
    /\ \A i \in DOMAIN sessions :
           \A n \in DOMAIN sessions[i].messages :
               sessions[i].messages[n].session_id = sessions[i].session_id

\* C35 witness: a message addressed to one session was redirected by the
\* time-gap rule and is held, under the new session's id, by the new session.
C35_Witness ==
    /\ last_call.op = "add_message"
    /\ last_call.stored_in # last_call.session_id
    /\ Has(sessions, last_call.stored_in)
    /\ LET s == Get(sessions, last_call.stored_in)
       IN  /\ s.messages # << >>
           /\ s.messages[Len(s.messages)].session_id = last_call.stored_in
           /\ s.messages[Len(s.messages)].text = last_call.text

C38_TimestampOrdering ==
    \A i \in DOMAIN sessions :
        LET s == sessions[i]
            n == Len(s.messages)
        IN  /\ s.created_at <= s.last_activity
            /\ \A k \in 1..(n - 1) : s.messages[k].timestamp <= s.messages[k + 1].timestamp
            /\ n > 0 => s.last_activity >= s.messages[n].timestamp

====
